---------------------------- MODULE Spec2Model ----------------------------
(***************************************************************************)
(* Model of predict.py: the Cog predictor around MAGNeT.                   *)
(*   download_weights / Predictor.setup   (process start)                  *)
(*   Predictor.predict                    (one request at a time)          *)
(* Optional Python values (None or a value) are sequences of length <= 1.  *)
(***************************************************************************)
EXTENDS Integers, Sequences, FiniteSets, TLC

VARIABLES
    cacheExists,      \* os.path.exists(AUDIO_CACHE)
    existed,          \* setup: the value line 30 read, None before it ran
    downloads,        \* number of pget invocations made by download_weights
    self_model,       \* self.model: None or [checkpoint, generation_params]
    pc,               \* position of the process in setup / predict
    req,              \* arguments of the running predict call, None outside
    continuation_start,   \* local, after line 123
    continuation_end,     \* local, after line 125: seconds as num/den
    input_audio_wavform,  \* local, line 132: [from, to] sample range
    wav,              \* local: waveforms returned by generation
    gen,              \* the generation invocation made by this call
    outdir,           \* indices idx with a file /tmp/output/{idx}.wav
    outdir_before,    \* contents of /tmp/output when the call started
    result            \* outcome of the call: None, returned paths or error

vars == << cacheExists, existed, downloads, self_model, pc, req,
           continuation_start, continuation_end, input_audio_wavform,
           wav, gen, outdir, outdir_before, result >>

None == << >>
Some(x) == << x >>
Val(o) == o[1]

----------------------------------------------------------------------------
(* Bounds and input sets *)

MaxTime == 1

\* three of the six choices of the `model` input
Checkpoints ==
    { "facebook/magnet-small-10secs", "facebook/magnet-medium-30secs",
      "facebook/audio-magnet-medium" }

SetupCheckpoint == "facebook/audio-magnet-medium"

MinVariations == 1
MaxVariations == 4
Variations == { MinVariations, 3, MaxVariations }

\* reference clips as torchaudio.load returns them: sample rate, sample count
Clips == { [sr |-> 44100, n |-> 15],
           [sr |-> 44100, n |-> 44100] }

\* span_score, temperature, top_p (in hundredths), CFG coefficients and the
\* decoding steps of stages 1 to 4: the defaults and one other choice
Samplings ==
    { [span_score |-> "prod-stride1", temperature |-> 3, top_p |-> 90,
       max_cfg |-> 10, min_cfg |-> 1, steps |-> << 20, 10, 10, 10 >>],
      [span_score |-> "max-nonoverlap", temperature |-> 1, top_p |-> 50,
       max_cfg |-> 5, min_cfg |-> 2, steps |-> << 4, 3, 2, 1 >>] }

Prompt == "80s electronic track"

\* the arguments of predict, under the names of lines 37-112; a
\* continuation_start of None behaves as 0 (line 123) and is not drawn
Requests ==
    { [ prompt |-> Prompt,
        input_audio |-> a,
        continuation |-> c,
        continuation_start |-> s,
        continuation_end |-> e,
        model |-> m,
        variations |-> v,
        span_score |-> g.span_score,
        temperature |-> g.temperature,
        top_p |-> g.top_p,
        max_cfg |-> g.max_cfg,
        min_cfg |-> g.min_cfg,
        decoding_steps_stage_1 |-> g.steps[1],
        decoding_steps_stage_2 |-> g.steps[2],
        decoding_steps_stage_3 |-> g.steps[3],
        decoding_steps_stage_4 |-> g.steps[4] ] :
      a \in {None} \cup { Some(clip) : clip \in Clips },
      c \in BOOLEAN,
      s \in 0..MaxTime,
      e \in {None} \cup { Some(t) : t \in (-1)..MaxTime },
      m \in Checkpoints,
      v \in Variations,
      g \in Samplings }

----------------------------------------------------------------------------
(* Python float arithmetic of lines 125 and 133 on small integers.         *)
(* continuation_end is kept as the exact fraction num/den it was computed  *)
(* from; IntSrTimes computes int(sr * float(num/den)) as IEEE-754 double   *)
(* arithmetic (53-bit significand, round to nearest even) does.            *)

RECURSIVE BitLength(_)
BitLength(x) == IF x = 0 THEN 0 ELSE 1 + BitLength(x \div 2)

RECURSIVE Pow2(_)
Pow2(k) == IF k <= 0 THEN 1 ELSE 2 * Pow2(k - 1)

\* for 0 < n < sr: the j >= 0 with n * 2^j < sr <= n * 2^(j+1)
RECURSIVE ShiftBelow(_, _, _)
ShiftBelow(x, sr, j) == IF 2 * x >= sr THEN j ELSE ShiftBelow(2 * x, sr, j + 1)

\* (x * 2^k) mod m, ten doublings at a time (m * 1024 fits the integers)
RECURSIVE MulPow2Mod(_, _, _)
MulPow2Mod(x, k, m) ==
    IF k <= 0 THEN x % m
    ELSE IF k >= 10 THEN MulPow2Mod((1024 * (x % m)) % m, k - 10, m)
    ELSE MulPow2Mod((2 * (x % m)) % m, k - 1, m)

\* binary exponent f of n/sr: 2^(f-1) <= n/sr < 2^f
FloatExponent(n, sr) ==
    IF n >= sr THEN BitLength(n \div sr) ELSE 0 - ShiftBelow(n, sr, 0)

\* int(sr * (n / sr)) in double precision
FloatRoundTrip(n, sr) ==
    IF n = 0 THEN 0
    ELSE LET f == FloatExponent(n, sr)
             k == 53 - f                        \* n/sr = M * 2^-k, M 53 bits
             r == MulPow2Mod(n, k, sr)          \* remainder of the division
             odd == MulPow2Mod(n, k, 2 * sr) \div sr   \* parity of floor
             down == (2 * r < sr) \/ (2 * r = sr /\ odd = 0)
             g == BitLength(n - 1) - f          \* half an ulp below n: 2^(g-k-1)
         IN  IF r = 0 \/ ~down THEN n           \* sr * q >= n, rounds to n
             ELSE IF g <= 0 \/ 2 * r > Pow2(g) THEN n - 1
             ELSE n

\* the comparison of line 127 turned around
SecondsExceedReversed(start, end) == start * end.den < end.num

\* line 127: an int against the seconds num/den; the float num/den lies on
\* the same side of every integer as the exact quotient
SecondsExceed(start, end) == start * end.den > end.num

IntSrTimes(sr, end) ==
    IF end.den = 1 THEN sr * end.num ELSE FloatRoundTrip(end.num, end.den)

Min(a, b) == IF a < b THEN a ELSE b

----------------------------------------------------------------------------
NoGen == [kind |-> "none", checkpoint |-> None, params |-> None,
          descriptions |-> << >>, audio |-> None]

Init ==
    /\ cacheExists \in BOOLEAN
    /\ existed = None
    /\ downloads = 0
    /\ self_model = None
    /\ pc = "setup"
    /\ req = None
    /\ continuation_start = None
    /\ continuation_end = None
    /\ input_audio_wavform = None
    /\ wav = None
    /\ gen = NoGen
    /\ outdir = {}
    /\ outdir_before = {}
    /\ result = None

predictLocals == << req, continuation_start, continuation_end,
                    input_audio_wavform, wav, gen, outdir_before, result >>

----------------------------------------------------------------------------
(* Predictor.setup *)

\* line 30
SetupCheck ==
    /\ pc = "setup"
    /\ existed' = Some(cacheExists)
    /\ pc' = IF cacheExists THEN "setup_load" ELSE "download"
    /\ UNCHANGED << cacheExists, downloads, self_model, outdir, predictLocals >>

\* download_weights: pget -x exits 0 and the archive is in place
DownloadOk ==
    /\ pc = "download"
    /\ downloads' = downloads + 1
    /\ cacheExists' = TRUE
    /\ pc' = "setup_load"
    /\ UNCHANGED << existed, self_model, outdir, predictLocals >>

\* the exit status of pget ignored (subprocess.call for check_call)
DownloadFailIgnored ==
    /\ pc = "download"
    /\ downloads' = downloads + 1
    /\ pc' = "setup_load"
    /\ UNCHANGED << cacheExists, existed, self_model, outdir, predictLocals >>

\* download_weights: pget exits non-zero, check_call raises
DownloadFail ==
    /\ pc = "download"
    /\ downloads' = downloads + 1
    /\ pc' = "aborted"
    /\ UNCHANGED << cacheExists, existed, self_model, outdir, predictLocals >>

\* line 32
SetupLoad ==
    /\ pc = "setup_load"
    /\ self_model' = Some([checkpoint |-> SetupCheckpoint,
                           generation_params |-> None])
    /\ pc' = "idle"
    /\ UNCHANGED << cacheExists, existed, downloads, outdir, predictLocals >>

----------------------------------------------------------------------------
(* Predictor.predict *)

\* line 115
Descriptions(r) == [ i \in 1..r.variations |-> r.prompt ]

\* the checkpoint of setup loaded whatever the request names
GetPretrainedOfSetup(name) ==
    Some([checkpoint |-> SetupCheckpoint, generation_params |-> None])

\* MAGNeT.get_pretrained(name): a fresh model with the library's defaults
GetPretrained(name) == Some([checkpoint |-> name, generation_params |-> None])

\* the keyword arguments of set_generation_params, lines 137-143 and 153-159
\* (the two calls are textually identical)
SpanArrangement(span_score) ==
    IF span_score = "prod-stride1" THEN "stride1" ELSE "nonoverlap"

\* the two CFG coefficients passed in each other's place
GenerationParamsCfgSwapped(r) ==
    [ temperature |-> r.temperature,
      top_p |-> r.top_p,
      max_cfg_coef |-> r.min_cfg,
      min_cfg_coef |-> r.max_cfg,
      decoding_steps |-> << r.decoding_steps_stage_1,
                            r.decoding_steps_stage_2,
                            r.decoding_steps_stage_3,
                            r.decoding_steps_stage_4 >>,
      span_arrangement |-> SpanArrangement(r.span_score) ]

GenerationParams(r) ==
    [ temperature |-> r.temperature,
      top_p |-> r.top_p,
      max_cfg_coef |-> r.max_cfg,
      min_cfg_coef |-> r.min_cfg,
      decoding_steps |-> << r.decoding_steps_stage_1,
                            r.decoding_steps_stage_2,
                            r.decoding_steps_stage_3,
                            r.decoding_steps_stage_4 >>,
      span_arrangement |-> SpanArrangement(r.span_score) ]

\* line 119: `continuation and input_audio`
ContinuationBranch(r) == r.continuation /\ r.input_audio # None

\* line 123
NormalStart(s) == IF s = 0 THEN 0 ELSE s

\* lines 124-125
NormalEnd(e, clip) ==
    IF e = None \/ Val(e) = -1
    THEN [num |-> clip.n, den |-> clip.sr]
    ELSE [num |-> Val(e), den |-> 1]

\* lines 132-134: a Python slice, clamped to the clip
SliceOf(clip, start, end) ==
    [from |-> Min(clip.sr * start, clip.n),
     to |-> Min(IntSrTimes(clip.sr, end), clip.n)]

Raised(error) == Some([kind |-> error, paths |-> << >>])
Returned(paths) == Some([kind |-> "returned", paths |-> paths])

\* lines 115-117: a request arrives, the checkpoint it names is loaded
Predict(r) ==
    /\ pc = "idle"
    /\ req' = Some(r)
    /\ self_model' = GetPretrained(r.model)
    /\ continuation_start' = None
    /\ continuation_end' = None
    /\ input_audio_wavform' = None
    /\ wav' = None
    /\ gen' = NoGen
    /\ result' = None
    /\ outdir_before' = outdir
    /\ pc' = IF ContinuationBranch(r) THEN "load_audio" ELSE "set_params"
    /\ UNCHANGED << cacheExists, existed, downloads, outdir >>

\* lines 120-125
LoadAudio ==
    /\ pc = "load_audio"
    /\ LET r == Val(req)
           clip == Val(r.input_audio)
       IN  /\ continuation_start' = Some(NormalStart(r.continuation_start))
           /\ continuation_end' = Some(NormalEnd(r.continuation_end, clip))
    /\ pc' = "validate"
    /\ UNCHANGED << cacheExists, existed, downloads, self_model, req,
                    input_audio_wavform, wav, gen, outdir, outdir_before,
                    result >>

\* the older runs deleted on the way into the validation
ValidateAfterClear ==
    /\ pc = "validate"
    /\ outdir' = {}
    /\ IF SecondsExceed(Val(continuation_start), Val(continuation_end))
       THEN /\ pc' = "raised"
            /\ result' = Raised("ValueError")
       ELSE /\ pc' = "slice"
            /\ UNCHANGED result
    /\ UNCHANGED << cacheExists, existed, downloads, self_model, req,
                    continuation_start, continuation_end,
                    input_audio_wavform, wav, gen, outdir_before >>

\* lines 127-130
Validate ==
    /\ pc = "validate"
    /\ IF SecondsExceed(Val(continuation_start), Val(continuation_end))
       THEN /\ pc' = "raised"
            /\ result' = Raised("ValueError")
       ELSE /\ pc' = "slice"
            /\ UNCHANGED result
    /\ UNCHANGED << cacheExists, existed, downloads, self_model, req,
                    continuation_start, continuation_end,
                    input_audio_wavform, wav, gen, outdir, outdir_before >>

\* lines 132-135
Slice ==
    /\ pc = "slice"
    /\ input_audio_wavform' =
           Some(SliceOf(Val(Val(req).input_audio), Val(continuation_start),
                        Val(continuation_end)))
    /\ pc' = "set_params_continuation"
    /\ UNCHANGED << cacheExists, existed, downloads, self_model, req,
                    continuation_start, continuation_end, wav, gen, outdir,
                    outdir_before, result >>

\* lines 137-143 and 153-159: self.model.set_generation_params(...)
SetGenerationParams ==
    /\ pc \in {"set_params", "set_params_continuation"}
    /\ self_model' = Some([Val(self_model) EXCEPT
                              !.generation_params =
                                  Some(GenerationParams(Val(req)))])
    /\ pc' = IF pc = "set_params" THEN "generate"
                                  ELSE "generate_continuation"
    /\ UNCHANGED << cacheExists, existed, downloads, req, continuation_start,
                    continuation_end, input_audio_wavform, wav, gen, outdir,
                    outdir_before, result >>

\* lines 144-150: `model` is the str argument, not self.model, so the
\* attribute lookup raises AttributeError before anything is generated
GenerateContinuation ==
    /\ pc = "generate_continuation"
    /\ pc' = "raised"
    /\ result' = Raised("AttributeError")
    /\ UNCHANGED << cacheExists, existed, downloads, self_model, req,
                    continuation_start, continuation_end,
                    input_audio_wavform, wav, gen, outdir, outdir_before >>

\* line 160: self.model.generate(descriptions), one waveform per description
Generate ==
    /\ pc = "generate"
    /\ gen' = [kind |-> "generate",
               checkpoint |-> Some(Val(self_model).checkpoint),
               params |-> Val(self_model).generation_params,
               descriptions |-> Descriptions(Val(req)),
               audio |-> None]
    /\ wav' = Some(Len(Descriptions(Val(req))))
    /\ pc' = "clear"
    /\ UNCHANGED << cacheExists, existed, downloads, self_model, req,
                    continuation_start, continuation_end,
                    input_audio_wavform, outdir, outdir_before, result >>

\* the older runs left in place
ClearKeepsFiles ==
    /\ pc = "clear"
    /\ pc' = "write"
    /\ UNCHANGED << cacheExists, existed, downloads, self_model, req,
                    continuation_start, continuation_end,
                    input_audio_wavform, wav, gen, outdir, outdir_before,
                    result >>

\* line 163: rm -rf /tmp/output
Clear ==
    /\ pc = "clear"
    /\ outdir' = {}
    /\ pc' = "write"
    /\ UNCHANGED << cacheExists, existed, downloads, self_model, req,
                    continuation_start, continuation_end,
                    input_audio_wavform, wav, gen, outdir_before, result >>

\* lines 165-166: audio_write(f'/tmp/output/{idx}', ...) for each waveform
Write ==
    /\ pc = "write"
    /\ outdir' = outdir \cup 0..(Val(wav) - 1)
    /\ pc' = "return"
    /\ UNCHANGED << cacheExists, existed, downloads, self_model, req,
                    continuation_start, continuation_end,
                    input_audio_wavform, wav, gen, outdir_before, result >>

\* lines 168-172
OutputPaths(r) == [ i \in 1..r.variations |-> i - 1 ]

Return ==
    /\ pc = "return"
    /\ result' = Returned(OutputPaths(Val(req)))
    /\ pc' = "done"
    /\ UNCHANGED << cacheExists, existed, downloads, self_model, req,
                    continuation_start, continuation_end,
                    input_audio_wavform, wav, gen, outdir, outdir_before >>

\* the call frame ends: the harness takes the paths or the exception and
\* the locals of predict are gone; self.model and /tmp/output stay
Finish ==
    /\ pc \in {"done", "raised"}
    /\ pc' = "idle"
    /\ req' = None
    /\ continuation_start' = None
    /\ continuation_end' = None
    /\ input_audio_wavform' = None
    /\ wav' = None
    /\ gen' = NoGen
    /\ result' = None
    /\ outdir_before' = {}
    /\ UNCHANGED << cacheExists, existed, downloads, self_model, outdir >>

Next ==
    \/ SetupCheck
    \/ DownloadOk
    \/ DownloadFail
    \/ SetupLoad
    \/ \E r \in Requests : Predict(r)
    \/ LoadAudio
    \/ Validate
    \/ Slice
    \/ SetGenerationParams
    \/ GenerateContinuation
    \/ Generate
    \/ Clear
    \/ Write
    \/ Return
    \/ Finish

Spec == Init /\ [][Next]_vars

----------------------------------------------------------------------------
(* Vocabulary of the properties *)

R == Val(req)
InCall == req # None
Finished == pc \in {"done", "raised"}

EndGiven(r) == r.continuation_end # None /\ Val(r.continuation_end) # -1

\* a request inside the declared ranges whose time window is in order: the
\* end, when given, is not before the start, and when the end defaults to
\* the clip's length the start lies inside the clip
ValidRequest(r) ==
    /\ r.variations \in MinVariations..MaxVariations
    /\ r.continuation_start >= 0
    /\ r.continuation_end # None => Val(r.continuation_end) >= 0
    /\ EndGiven(r) => r.continuation_start <= Val(r.continuation_end)
    /\ (ContinuationBranch(r) /\ ~EndGiven(r)) =>
           r.continuation_start * Val(r.input_audio).sr
               <= Val(r.input_audio).n

VariationPaths(v) == [ i \in 1..v |-> i - 1 ]

----------------------------------------------------------------------------
\* C1: for any valid request, in continuation mode or not and with or
\* without a reference clip, predict returns normally and returns exactly
\* `variations` paths /tmp/output/0.wav, /tmp/output/1.wav, ... in order.
C1_ReturnsVariationPaths ==
    (InCall /\ Finished /\ ValidRequest(R)) =>
        result = Some([kind |-> "returned",
                       paths |-> VariationPaths(R.variations)])

C3_OneWaveformPerVariation ==
    (InCall /\ Finished /\ ValidRequest(R)) =>
        /\ wav = Some(R.variations)
        /\ outdir = 0..(R.variations - 1)
        /\ result # None
        /\ \A i \in 1..Len(Val(result).paths) : Val(result).paths[i] \in outdir

\* C4: whenever generation is invoked, the checkpoint loaded in self.model
\* is the one the current request names, whatever was loaded before.
C4_GeneratesWithRequestedCheckpoint ==
    /\ (InCall /\ pc \in {"generate", "generate_continuation"}) =>
           /\ self_model # None
           /\ Val(self_model).checkpoint = R.model
    /\ gen.kind # "none" => (InCall /\ gen.checkpoint = Some(R.model))

C4_Witness ==
    /\ gen.kind = "generate"
    /\ gen.checkpoint # Some(SetupCheckpoint)
    /\ pc = "clear"

\* C5: after a successful call /tmp/output holds exactly the files that
\* call wrote, whatever it held before; the directory is empty when the
\* writing starts.
C5_OutputDirectoryIsFresh ==
    /\ pc = "write" => outdir = {}
    /\ pc \in {"return", "done"} =>
           /\ wav # None
           /\ outdir = 0..(Val(wav) - 1)
           /\ outdir = 0..(R.variations - 1)

C5_Witness ==
    /\ pc = "done"
    /\ Cardinality(outdir_before) > R.variations
    /\ outdir = 0..(R.variations - 1)

\* C6: in a continuation request with a reference clip whose
\* continuation_end is None or -1, the conditioning prefix runs from
\* continuation_start to the last sample of the clip.
C6_DefaultEndIsClipEnd ==
    (InCall /\ input_audio_wavform # None /\ ~EndGiven(R)) =>
        /\ Val(continuation_end) = [num |-> Val(R.input_audio).n,
                                    den |-> Val(R.input_audio).sr]
        /\ Val(input_audio_wavform).from
               = Val(R.input_audio).sr * R.continuation_start
        /\ Val(input_audio_wavform).to = Val(R.input_audio).n

\* the parameters of the request as C7 expects them on the model
PassedThrough(r, span) ==
    [ temperature |-> r.temperature,
      top_p |-> r.top_p,
      max_cfg_coef |-> r.max_cfg,
      min_cfg_coef |-> r.min_cfg,
      decoding_steps |-> << r.decoding_steps_stage_1,
                            r.decoding_steps_stage_2,
                            r.decoding_steps_stage_3,
                            r.decoding_steps_stage_4 >>,
      span_arrangement |-> span ]

ConfiguredAs(span) ==
    /\ (InCall /\ pc \in {"generate", "generate_continuation"}) =>
           /\ self_model # None
           /\ Val(self_model).generation_params
                  = Some(PassedThrough(R, span))
    /\ gen.kind # "none" => gen.params = Some(PassedThrough(R, span))

\* C7 as stated: in both branches the configuration on the model when
\* generation is invoked carries temperature, top-p, the CFG coefficients,
\* the four decoding step counts in stage order and the span-arrangement
\* strategy, each equal to the request's value.
C7_AllParamsEqualRequest == ConfiguredAs(R.span_score)

\* C7 amended: as above for temperature, top-p, the CFG coefficients and
\* the decoding steps; the span arrangement configured is "stride1" for the
\* request's "prod-stride1" and "nonoverlap" for "max-nonoverlap".
C7_ParamsPassedSpanTranslated ==
    ConfiguredAs(CASE R.span_score = "prod-stride1" -> "stride1"
                   [] R.span_score = "max-nonoverlap" -> "nonoverlap")

C7_Witness ==
    /\ pc = "generate_continuation"
    /\ R.span_score = "max-nonoverlap"
    /\ Val(self_model).generation_params # None
    /\ Val(Val(self_model).generation_params).decoding_steps
           = << 4, 3, 2, 1 >>

\* C8: with continuation and a reference clip the clip is the prompt of a
\* continuation; with a clip and no continuation the clip guides the melody
\* of the generation; only without a clip is generation unconditioned.
C8_ClipConditionsGeneration ==
    (InCall /\ Finished /\ ValidRequest(R)) =>
        /\ ContinuationBranch(R) =>
               /\ gen.kind = "generate_continuation"
               /\ gen.audio = input_audio_wavform
        /\ (R.input_audio # None /\ ~R.continuation) =>
               /\ gen.kind = "generate"
               /\ gen.audio = R.input_audio
        /\ R.input_audio = None => (gen.kind = "generate" /\ gen.audio = None)

\* C9: setup runs pget exactly when the weights location is absent, once,
\* before any model exists; a failed download aborts setup with no model
\* loaded, and no model is loaded and no request served without the
\* weights location in place.
C9_WeightsBeforeModel ==
    /\ downloads <= 1
    /\ existed = None => (downloads = 0 /\ pc = "setup")
    /\ pc = "download" => (existed = Some(FALSE) /\ downloads = 0)
    /\ (existed # None /\ pc # "download") =>
           (downloads = 1 <=> existed = Some(FALSE))
    /\ pc \in {"setup", "download", "aborted"} => self_model = None
    /\ pc = "aborted" => (~cacheExists /\ ~InCall)
    /\ self_model # None => cacheExists
    /\ InCall => (cacheExists /\ self_model # None)

C9_Witness ==
    /\ downloads = 1
    /\ existed = Some(FALSE)
    /\ gen.kind = "generate"

\* C10: a call that fails with the time-window ValueError leaves
\* /tmp/output as it was when the call started and changes nothing but the
\* loaded checkpoint; the directory is untouched until generation is done.
C10_FailedCallKeepsOutput ==
    /\ (InCall /\ pc \notin {"write", "return", "done"}) =>
           outdir = outdir_before
    /\ (pc = "raised" /\ result = Some([kind |-> "ValueError",
                                         paths |-> << >>])) =>
           /\ outdir = outdir_before
           /\ cacheExists
           /\ gen.kind = "none"
           /\ self_model = Some([checkpoint |-> R.model,
                                 generation_params |-> None])

C10_Witness ==
    /\ pc = "raised"
    /\ result = Some([kind |-> "ValueError", paths |-> << >>])
    /\ outdir = 0..(MaxVariations - 1)
    /\ outdir_before = outdir

=============================================================================
